---- MODULE Spec2Model ----
(***************************************************************************)
(* A model of btplotting/app.py: class BacktraderPlotting, the session     *)
(* registry of figure pages, the configuration of plot objects, the        *)
(* blueprint of a strategy into figures, the data clock and the layout of  *)
(* figures into panels.                                                    *)
(*                                                                         *)
(* Python objects are named by strings.  A plotinfo namespace is a         *)
(* function from attribute names to values, so that hasattr(plotinfo, a)   *)
(* is  a \in DOMAIN plotinfo.  A text that is matched by a regular         *)
(* expression is a sequence of one-character strings.  An exception is a   *)
(* result with raised = TRUE that keeps every assignment made before the   *)
(* raise.                                                                  *)
(***************************************************************************)
EXTENDS Integers, Sequences, FiniteSets, TLC

VARIABLES
    figurepages,  \* self._figurepages: figid -> FigurePage
    plotinfo,     \* obj.plotinfo of every object of the strategies
    p,            \* self.p and self.scheme, fixed at construction
    arg,          \* the call made last: its name and figid
    ret,          \* what the call made last returned or raised
    calls,        \* the number of calls made so far
    declared      \* the plotinfo the objects' classes declare

vars == <<figurepages, plotinfo, p, arg, ret, calls, declared>>

----------------------------------------------------------------------------
(* Bounds of the model. *)

\* figids range over 0 .. MaxFigId
MaxFigId == 1

\* the app is followed for MaxCalls calls of its methods
MaxCalls == 3

\* regular expressions of 'r:' rules have at most MaxPatLen characters
MaxPatLen == 2

\* the maps given to the visibility filter have at most MaxMasters masters
MaxMasters == 2

FigIds == 0 .. MaxFigId

None == "None"

\* get_dataname of an object tied to no data feed
False == "False"

----------------------------------------------------------------------------
(* The backtest results handed to the app (backtrader objects). *)

Strategies == {"S0", "S1"}

OptReturns == {"R0"}

\* objects that are neither a bt.Strategy nor a bt.OptReturn
Unsupported == {"X0"}

Sources == Strategies \cup OptReturns \cup Unsupported

\* the data feeds, indicators and observers of the strategies
Objects == {"d0", "d1", "i0", "i1", "i2", "o0", "d2", "i3"}

\* FigureType.get_type(obj).name
get_type(obj) ==
    CASE obj \in {"d0", "d1", "d2"} -> "DATA"
      [] obj \in {"i0", "i1", "i2", "i3"} -> "IND"
      [] obj \in {"o0"} -> "OBS"

\* FigureType(Enum).value
FigureTypeValue == [OBS |-> 0, DATA |-> 1, VOL |-> 2, IND |-> 3]

\* utils.get_dataname(obj): the data feed an object is tied to
get_dataname(obj) ==
    CASE obj \in {"d0", "i0"} -> "d0"
      [] obj \in {"d1", "i1", "i2"} -> "d1"
      [] obj \in {"d2", "i3"} -> "d2"
      [] obj \in {"o0"} -> False

\* utils.get_datanames(strategy, filter=False): feeds in declaration order
get_datanames(strategy) ==
    CASE strategy = "S0" -> <<"d0", "d1">>
      [] strategy = "S1" -> <<"d2">>

\* helper.label.obj2label(obj)
obj2label(obj) ==
    CASE obj = "d0" -> <<"a", "b">>
      [] obj = "d1" -> <<"b", "a">>
      [] obj = "i0" -> <<"a", "a", "b">>
      [] obj = "i1" -> <<"b">>
      [] obj = "i2" -> <<"b", "b", "a">>
      [] obj = "o0" -> <<>>
      [] obj = "d2" -> <<"a">>
      [] obj = "i3" -> <<"b", "a", "b">>

\* utils.get_plotobjs(strategy, ...): master -> children, in collector order.
\* Ordered by data clock the strategy itself is a key; ordered by plot master
\* the keys are the objects that get a figure of their own.
get_plotobjs(strategy, order_by_plotmaster) ==
    CASE strategy = "S0" /\ ~order_by_plotmaster ->
            << [master |-> "S0", childs |-> <<"o0">>],
               [master |-> "d0", childs |-> <<"i0">>],
               [master |-> "d1", childs |-> <<"i1", "i2">>] >>
      [] strategy = "S0" /\ order_by_plotmaster ->
            << [master |-> "d0", childs |-> <<"i0">>],
               [master |-> "d1", childs |-> <<>>],
               [master |-> "i1", childs |-> <<>>],
               [master |-> "i2", childs |-> <<>>],
               [master |-> "o0", childs |-> <<>>] >>
      [] strategy = "S1" /\ ~order_by_plotmaster ->
            << [master |-> "S1", childs |-> <<>>],
               [master |-> "d2", childs |-> <<"i3">>] >>
      [] strategy = "S1" /\ order_by_plotmaster ->
            << [master |-> "d2", childs |-> <<"i3">>] >>

\* strategy.analyzers.getitems() / optreturn.analyzers.getitems()
analyzers_of(obj) ==
    CASE obj = "S0" -> <<"an0">>
      [] obj = "S1" -> <<>>
      [] obj = "R0" -> <<"an1", "an2">>
      [] OTHER -> <<>>

\* A filter is named by the set of objects utils.filter_obj drops with it;
\* NoFilter is the filter None.
NoFilter == {None}

\* utils.filter_obj(obj, filter)
filter_obj(obj, filter) == filter /= NoFilter /\ obj \in filter

\* utils.get_smallest_dataname(strategy, datanames): the feed with the
\* shortest bar interval, the first declared on a tie
get_smallest_dataname(strategy, datanames) ==
    LET feeds == get_datanames(strategy)
        found == {i \in 1 .. Len(feeds) : feeds[i] \in datanames}
    IN  IF found = {} THEN False
        ELSE feeds[CHOOSE i \in found : \A j \in found : i <= j]

----------------------------------------------------------------------------
(* re.match and re.search, for patterns of literal characters and '.' *)

\* the pattern matches the text at offset k (0-based)
MatchesAt(pattern, text, k) ==
    /\ k + Len(pattern) <= Len(text)
    /\ \A i \in 1 .. Len(pattern) :
          pattern[i] = "." \/ pattern[i] = text[k + i]

re_search(pattern, text) ==
    \E k \in 0 .. Len(text) : MatchesAt(pattern, text, k)

re_match(pattern, text) == MatchesAt(pattern, text, 0)

----------------------------------------------------------------------------
(* _configure_plotobject and _configure_plotting.  plotconfig is a sequence *)
(* of rules [ctype, target, config] in the insertion order of the dict,     *)
(* each key already split at ':'; plotconfig None is the empty sequence.    *)

\* apply_config(obj, config): setattr(obj.plotinfo, k, v) for every item
apply_config(info, config) ==
    [k \in DOMAIN info \cup DOMAIN config |->
        IF k \in DOMAIN config THEN config[k] ELSE info[k]]

\* the patch with a plotid that leaves out the index
patch_plotinfo_without_idx(info, obj, idx) ==
    LET withid ==
            IF "plotid" \notin DOMAIN info
            THEN apply_config(info, [plotid |-> get_type(obj)])
            ELSE info
    IN  IF "plotorder" \notin DOMAIN withid
        THEN apply_config(withid, [plotorder |-> 0])
        ELSE withid

\* the patch of plotid and plotorder on an object that lacks them
patch_plotinfo(info, obj, idx) ==
    LET withid ==
            IF "plotid" \notin DOMAIN info
            THEN apply_config(info, [plotid |-> get_type(obj) \o ToString(idx)])
            ELSE info
    IN  IF "plotorder" \notin DOMAIN withid
        THEN apply_config(withid, [plotorder |-> 0])
        ELSE withid

\* the test of an 'r:' rule made with re.search
regex_applies_search(target, label) == re_search(target, label)

\* the test of an 'r:' rule: m = re.match(target, label)
regex_applies(target, label) == re_match(target, label)

\* whether a rule of a known kind applies its config to the object
rule_applies(rule, info, obj, idx) ==
    CASE rule.ctype = "r" -> regex_applies(rule.target, obj2label(obj))
      [] rule.ctype = "#" ->
            get_type(obj) = rule.target.type /\ rule.target.idx = idx
      [] rule.ctype = "id" -> info.plotid = rule.target

\* the loop over self.p.plotconfig.items(), from rule k on
RECURSIVE apply_rules(_, _, _, _, _)
apply_rules(info, obj, idx, plotconfig, k) ==
    IF k > Len(plotconfig) THEN [info |-> info, raised |-> FALSE]
    ELSE IF plotconfig[k].ctype \notin {"r", "#", "id"}
    THEN [info |-> info, raised |-> TRUE]
    ELSE apply_rules(
            IF rule_applies(plotconfig[k], info, obj, idx)
            THEN apply_config(info, plotconfig[k].config) ELSE info,
            obj, idx, plotconfig, k + 1)

_configure_plotobject(info, obj, idx, plotconfig) ==
    apply_rules(patch_plotinfo(info, obj, idx), obj, idx, plotconfig, 1)

\* the objects _configure_plotting configures, in order: the object at
\* position k is configured with idx = k - 1
RECURSIVE configured_objects(_)
configured_objects(objs) ==
    IF objs = <<>> THEN <<>>
    ELSE (IF Head(objs).master \in Strategies THEN <<>>
          ELSE <<Head(objs).master>>)
         \o Head(objs).childs \o configured_objects(Tail(objs))

\* the two loops of _configure_plotting, from position k of the order on
RECURSIVE configure_from(_, _, _, _)
configure_from(infos, order, plotconfig, k) ==
    IF k > Len(order) THEN [plotinfo |-> infos, raised |-> FALSE]
    ELSE LET r == _configure_plotobject(
                     infos[order[k]], order[k], k - 1, plotconfig)
             next == [infos EXCEPT ![order[k]] = r.info]
         IN  IF r.raised THEN [plotinfo |-> next, raised |-> TRUE]
             ELSE configure_from(next, order, plotconfig, k + 1)

_configure_plotting(infos, strategy, plotconfig) ==
    configure_from(infos,
        configured_objects(get_plotobjs(strategy, FALSE)), plotconfig, 1)

----------------------------------------------------------------------------
(* _get_plotobjects: the visibility filter *)

\* the filter that keeps every child of a master it keeps
filter_plotobjs_untested_childs(objs, filter) ==
    SelectSeq(objs, LAMBDA e : ~filter_obj(e.master, filter))

\* the body of _get_plotobjects, on the map the collector returned
filter_plotobjs(objs, filter) ==
    LET kept == SelectSeq(objs, LAMBDA e : ~filter_obj(e.master, filter))
    IN  [i \in 1 .. Len(kept) |->
            [master |-> kept[i].master,
             childs |-> SelectSeq(kept[i].childs,
                                  LAMBDA c : ~filter_obj(c, filter))]]

_get_plotobjects(strategy, filter) ==
    filter_plotobjs(get_plotobjs(strategy, TRUE), filter)

----------------------------------------------------------------------------
(* FigurePage and Figure (btplotting.figure), as far as app.py uses them. *)
(* A page is identified by the figid it is registered under, a figure's   *)
(* time axis by the construction index of the figure that created it.     *)

\* FigurePage(obj, scheme)
FigurePage(obj) ==
    [strategy |-> IF obj \in Strategies THEN obj ELSE None,
     optreturn |-> IF obj \in OptReturns THEN obj ELSE None,
     figures |-> <<>>,
     analyzers |-> <<>>,
     data_clock |-> None,
     data_clock_objs |-> <<>>,
     model |-> <<>>]

\* FigurePage.reset()
reset(fp) == [fp EXCEPT !.figures = <<>>, !.analyzers = <<>>]

\* Figure(fp, scheme, master, childs, type): k is its construction index
Figure(figid, master, childs, type, k) ==
    [fp |-> figid, master |-> master, childs |-> childs, type |-> type,
     x_range |-> k, xaxis_visible |-> TRUE]

\* Figure.get_plotorder()
get_plotorder(f, infos) == infos[f.master].plotorder

\* Figure.get_plottab(); None and '' are both the untagged figure
get_plottab(f, infos) ==
    IF "plottab" \in DOMAIN infos[f.master]
    THEN infos[f.master].plottab ELSE ""

----------------------------------------------------------------------------
(* _blueprint_strategy, _blueprint_optreturn, _create_data_clock *)

\* the figures of the first loop: one per master, in filtered order
create_figures(figid, objects) ==
    [i \in 1 .. Len(objects) |->
        Figure(figid, objects[i].master, objects[i].childs,
               get_type(objects[i].master), i - 1)]

\* link axis: figures[i].figure.x_range = figures[0].figure.x_range
link_axis(figures) ==
    [i \in 1 .. Len(figures) |->
        [figures[i] EXCEPT !.x_range = figures[1].x_range]]

\* volume figures: one per DATA figure of the first loop
volume_figures(figid, figures) ==
    LET datas == SelectSeq(figures, LAMBDA f : f.type = "DATA")
    IN  [i \in 1 .. Len(datas) |->
            Figure(figid, datas[i].master, <<>>, "VOL",
                   Len(figures) + i - 1)]

\* fp.strategy.analyzers raises on a page without a strategy, after the
\* reset
_blueprint_strategy(fp, figid, filter, scheme) ==
    IF fp.strategy = None
    THEN [fp |-> reset(fp), raised |-> TRUE]
    ELSE LET figures == link_axis(create_figures(
                            figid, _get_plotobjects(fp.strategy, filter)))
             vols == IF scheme.volume /\ ~scheme.voloverlay
                     THEN volume_figures(figid, figures) ELSE <<>>
         IN  [fp |-> [fp EXCEPT !.analyzers = analyzers_of(fp.strategy),
                                !.figures = figures \o vols],
              raised |-> FALSE]

_blueprint_optreturn(fp) ==
    [fp EXCEPT !.figures = <<>>, !.analyzers = analyzers_of(fp.optreturn)]

\* masters and children of the figures, in the order of the two loops
RECURSIVE clock_objects(_)
clock_objects(figures) ==
    IF figures = <<>> THEN <<>>
    ELSE <<Head(figures).master>> \o Head(figures).childs
         \o clock_objects(Tail(figures))

\* the keys of a defaultdict filled in this order
RECURSIVE first_seen(_, _)
first_seen(names, seen) ==
    IF names = <<>> THEN <<>>
    ELSE IF Head(names) \in seen THEN first_seen(Tail(names), seen)
    ELSE <<Head(names)>> \o first_seen(Tail(names), seen \cup {Head(names)})

_create_data_clock(fp) ==
    LET all == clock_objects(fp.figures)
        keys == first_seen([i \in 1 .. Len(all) |-> get_dataname(all[i])], {})
        objs == [i \in 1 .. Len(keys) |->
                    [dataname |-> keys[i],
                     objs |-> SelectSeq(all,
                                 LAMBDA o : get_dataname(o) = keys[i])]]
    IN  [fp EXCEPT
            !.data_clock = get_smallest_dataname(
                fp.strategy, {keys[i] : i \in 1 .. Len(keys)}),
            !.data_clock_objs = objs]

\* the objects get_data joins a column for, in join order
RECURSIVE joined_columns(_)
joined_columns(objs) ==
    IF objs = <<>> THEN <<>>
    ELSE Head(objs).objs \o joined_columns(Tail(objs))

\* get_data on a page: data_clock None has no get_index_list
page_data(fp) ==
    IF fp.data_clock = None
    THEN [raised |-> TRUE, value |-> <<>>]
    ELSE [raised |-> FALSE, value |-> joined_columns(fp.data_clock_objs)]

----------------------------------------------------------------------------
(* The registry self._figurepages: a dict, kept as the sequence of its    *)
(* items [figid, fp] in insertion order.                                  *)

figids_of(pages) == {pages[i].figid : i \in 1 .. Len(pages)}

page_index(pages, figid) ==
    CHOOSE i \in 1 .. Len(pages) : pages[i].figid = figid

\* self._figurepages[figid], for a bound figid
page_of(pages, figid) == pages[page_index(pages, figid)].fp

\* the registry with the page of a bound figid mutated to fp
with_page(pages, figid, fp) ==
    [pages EXCEPT ![page_index(pages, figid)].fp = fp]

\* what a call leaves behind and returns
Result(pages, infos, error, value) ==
    [figurepages |-> pages, plotinfo |-> infos,
     raised |-> error /= "", error |-> error, value |-> value]

----------------------------------------------------------------------------
(* create_figurepage, update_figurepage, get_data *)

\* the strategy branch of create_figurepage, on the registered page
create_strategy_page(pages, infos, obj, figid, filter, filldata, params) ==
    LET c == _configure_plotting(infos, obj, params.plotconfig)
        b == _blueprint_strategy(
                 page_of(pages, figid), figid, filter, params.scheme)
        clocked == _create_data_clock(b.fp)
        df == page_data(clocked)
    IN  IF c.raised
        THEN Result(pages, c.plotinfo, "Unknown config type", None)
        ELSE IF b.raised
        THEN Result(with_page(pages, figid, b.fp), c.plotinfo,
                    "AttributeError", None)
        ELSE IF filldata /\ df.raised
        THEN Result(with_page(pages, figid, clocked), c.plotinfo,
                    "AttributeError", None)
        ELSE Result(with_page(pages, figid, clocked), c.plotinfo, "", figid)

\* create_figurepage without the test for a bound figid: the page of the
\* figid is replaced
create_figurepage_unchecked(pages, infos, obj, figid, filter, filldata, params) ==
    LET registered ==
            IF figid \in figids_of(pages)
            THEN with_page(pages, figid, FigurePage(obj))
            ELSE Append(pages, [figid |-> figid, fp |-> FigurePage(obj)])
    IN  IF obj \in Strategies
        THEN create_strategy_page(
                 registered, infos, obj, figid, filter, filldata, params)
        ELSE IF obj \in OptReturns
        THEN Result(with_page(registered, figid,
                        _blueprint_optreturn(page_of(registered, figid))),
                    infos, "", figid)
        ELSE Result(registered, infos, "Unsupported plot source object", None)

create_figurepage(pages, infos, obj, figid, filter, filldata, params) ==
    IF figid \in figids_of(pages)
    THEN Result(pages, infos, "FigurePage exists", None)
    ELSE LET registered ==
                 Append(pages, [figid |-> figid, fp |-> FigurePage(obj)])
         IN  IF obj \in Strategies
             THEN create_strategy_page(
                      registered, infos, obj, figid, filter, filldata, params)
             ELSE IF obj \in OptReturns
             THEN Result(with_page(registered, figid,
                             _blueprint_optreturn(page_of(registered, figid))),
                         infos, "", figid)
             ELSE Result(registered, infos, "Unsupported plot source object",
                         None)

update_figurepage(pages, infos, figid, filter, params) ==
    IF figid \notin figids_of(pages)
    THEN Result(pages, infos, "FigurePage does not exist", None)
    ELSE LET b == _blueprint_strategy(
                      page_of(pages, figid), figid, filter, params.scheme)
         IN  Result(with_page(pages, figid, b.fp), infos,
                    IF b.raised THEN "AttributeError" ELSE "", None)

get_data(pages, infos, figid) ==
    IF figid \notin figids_of(pages)
    THEN Result(pages, infos, "FigurePage does not exist", None)
    ELSE LET df == page_data(page_of(pages, figid))
         IN  Result(pages, infos,
                    IF df.raised THEN "AttributeError" ELSE "", df.value)

----------------------------------------------------------------------------
(* generate_model_panels: the sort of the figures and the fill of the tabs *)

\* the figid generate_model_panels takes when none is passed
DefaultFigid == 0

\* data_sort[get_dataname(x.master)]: 0 for no feed, else the 1-based
\* position of the feed in declaration order
data_sort(strategy, dataname) ==
    IF dataname = False THEN 0
    ELSE CHOOSE i \in 1 .. Len(get_datanames(strategy)) :
            get_datanames(strategy)[i] = dataname

\* the key of sorted_figs.sort
sort_key(f, infos, strategy) ==
    << get_plotorder(f, infos),
       data_sort(strategy, get_dataname(f.master)),
       FigureTypeValue[f.type] >>

\* the order of Python tuples of three integers
key_less(a, b) ==
    \/ a[1] < b[1]
    \/ a[1] = b[1] /\ a[2] < b[2]
    \/ a[1] = b[1] /\ a[2] = b[2] /\ a[3] < b[3]

\* x placed in front of the items whose key is equal: not a stable sort
insert_keyed_unstable(sorted, x) ==
    LET n == Cardinality({i \in 1 .. Len(sorted) :
                             key_less(sorted[i].key, x.key)})
    IN  SubSeq(sorted, 1, n) \o <<x>> \o SubSeq(sorted, n + 1, Len(sorted))

\* x placed into a sorted sequence behind every item whose key is not greater
insert_keyed(sorted, x) ==
    LET n == Cardinality({i \in 1 .. Len(sorted) :
                             ~key_less(x.key, sorted[i].key)})
    IN  SubSeq(sorted, 1, n) \o <<x>> \o SubSeq(sorted, n + 1, Len(sorted))

\* list.sort(key=...): a stable sort
RECURSIVE sort_keyed(_)
sort_keyed(items) ==
    IF items = <<>> THEN <<>>
    ELSE insert_keyed(sort_keyed(SubSeq(items, 1, Len(items) - 1)),
                      items[Len(items)])

sorted_figs(figures, infos, strategy) ==
    LET keyed == [i \in 1 .. Len(figures) |->
                     [key |-> sort_key(figures[i], infos, strategy),
                      fig |-> figures[i]]]
        sorted == sort_keyed(keyed)
    IN  [i \in 1 .. Len(sorted) |-> sorted[i].fig]

\* the fill of the tabs with the volume figures among the datas
tab_of_volume_with_datas(f, infos, scheme) ==
    IF get_plottab(f, infos) /= "" THEN get_plottab(f, infos)
    ELSE IF ~scheme.multiple_tabs THEN "Plots"
    ELSE CASE f.type \in {"DATA", "VOL"} -> "Datas"
           [] f.type = "OBS" -> "Observers"
           [] f.type = "IND" -> "Indicators"
           [] OTHER -> ""

\* the tab a figure is appended to; "" stands for the raise of
\* Unknown FigureType
tab_of(f, infos, scheme) ==
    IF get_plottab(f, infos) /= "" THEN get_plottab(f, infos)
    ELSE IF ~scheme.multiple_tabs THEN "Plots"
    ELSE CASE f.type = "DATA" -> "Datas"
           [] f.type = "OBS" -> "Observers"
           [] f.type = "IND" -> "Indicators"
           [] OTHER -> ""

\* x.figure.xaxis.visible of the figures of one tab
xaxis_of_tab(figs, scheme) ==
    IF scheme.xaxis_pos = "bottom"
    THEN [i \in 1 .. Len(figs) |->
             [figs[i] EXCEPT !.xaxis_visible = (i = Len(figs))]]
    ELSE figs

\* the panels of a figure list: [title, figs] in the order the tabs were
\* first filled
panels_of(figures, infos, strategy, scheme) ==
    LET sorted == sorted_figs(figures, infos, strategy)
        titles == first_seen(
            [i \in 1 .. Len(sorted) |-> tab_of(sorted[i], infos, scheme)], {})
    IN  [i \in 1 .. Len(titles) |->
            [title |-> titles[i],
             figs |-> xaxis_of_tab(
                 SelectSeq(sorted,
                     LAMBDA f : tab_of(f, infos, scheme) = titles[i]),
                 scheme)]]

\* the figures the panels hold
figures_in(panels) ==
    UNION {{panels[i].figs[j] : j \in 1 .. Len(panels[i].figs)} :
              i \in 1 .. Len(panels)}

\* two records of one Figure object
same_figure(f, g) ==
    f.fp = g.fp /\ f.master = g.master /\ f.type = g.type

\* a figure of the page as the panels left it
figure_after(f, panels) ==
    LET found == {g \in figures_in(panels) : same_figure(f, g)}
    IN  IF found = {} THEN f ELSE CHOOSE g \in found : TRUE

\* get_datanames(fp.strategy) raises on a page without a strategy, and
\* get_plotorder on a master whose plotinfo was never patched
generate_model_panels(pages, infos, figid, params) ==
    IF figid \notin figids_of(pages)
    THEN Result(pages, infos, "FigurePage does not exist", None)
    ELSE LET fp == page_of(pages, figid)
             panels == panels_of(fp.figures, infos, fp.strategy, params.scheme)
         IN  IF fp.strategy = None
             THEN Result(pages, infos, "AttributeError", None)
             ELSE IF \E i \in 1 .. Len(fp.figures) :
                        "plotorder" \notin DOMAIN infos[fp.figures[i].master]
             THEN Result(pages, infos, "AttributeError", None)
             ELSE IF \E i \in 1 .. Len(fp.figures) :
                        tab_of(fp.figures[i], infos, params.scheme) = ""
             THEN Result(pages, infos, "Unknown FigureType", None)
             ELSE Result(
                    with_page(pages, figid,
                        [fp EXCEPT !.figures =
                            [i \in 1 .. Len(fp.figures) |->
                                figure_after(fp.figures[i], panels)]]),
                    infos, "", panels)

----------------------------------------------------------------------------
(* generate_model, show, plot, plot_optmodel *)

\* BacktraderPlottingTab.is_useable() of the tabs of the app
is_useable(tab, fp) ==
    CASE tab = "AnalyzerTab" -> fp.analyzers /= <<>>
      [] OTHER -> TRUE

\* the panels of the useable tabs; they hold no figure
tab_panels(tabs, fp) ==
    LET useable == SelectSeq(tabs, LAMBDA t : is_useable(t, fp))
    IN  [i \in 1 .. Len(useable) |-> [title |-> useable[i], figs |-> <<>>]]

\* the call self.generate_model_panels() of generate_model
model_panels(pages, infos, figid, params) ==
    generate_model_panels(pages, infos, DefaultFigid, params)

generate_model(pages, infos, figid, params) ==
    IF figid \notin figids_of(pages)
    THEN Result(pages, infos, "FigurePage does not exist", None)
    ELSE LET r == IF page_of(pages, figid).strategy /= None
                  THEN model_panels(pages, infos, figid, params)
                  ELSE Result(pages, infos, "", <<>>)
             fp == page_of(r.figurepages, figid)
             model == r.value \o tab_panels(params.tabs, fp)
         IN  IF r.raised THEN r
             ELSE Result(with_page(r.figurepages, figid,
                                   [fp EXCEPT !.model = <<model>>]),
                         infos, "", model)

\* the loop of show over the registry, from item k on
RECURSIVE show_from(_, _, _, _)
show_from(pages, infos, params, k) ==
    IF k > Len(pages) THEN Result(pages, infos, "", None)
    ELSE LET r == generate_model(pages, infos, pages[k].figid, params)
         IN  IF r.raised THEN r
             ELSE IF params.output_mode \notin {"show", "save", "memory"}
             THEN Result(r.figurepages, infos,
                         "Invalid parameter output_mode", None)
             ELSE show_from(r.figurepages, infos, params, k + 1)

show(pages, infos, params) == show_from(pages, infos, params, 1)

plot(pages, infos, obj, figid, numfigs, use, filter, params) ==
    IF numfigs > 1
    THEN Result(pages, infos, "numfigs must be 1", None)
    ELSE IF use /= None
    THEN Result(pages, infos, "use not supported", None)
    ELSE create_figurepage(pages, infos, obj, figid,
             IF filter = NoFilter THEN params.filter ELSE filter,
             TRUE, params)

\* _reset, plot(obj), generate_model(0)
plot_optmodel(pages, infos, obj, params) ==
    LET r == plot(<<>>, infos, obj, DefaultFigid, 1, None, NoFilter, params)
    IN  IF r.raised THEN r
        ELSE generate_model(r.figurepages, r.plotinfo, DefaultFigid, params)

----------------------------------------------------------------------------
(* The app as a state machine: one action per method called from outside. *)

\* the filters the callers pass
Filters == {NoFilter, {"d1", "i0"}}

\* a rule of an unknown kind, behind a rule of a known one
OrderRule == [ctype |-> "id", target |-> "IND2", config |-> [plotorder |-> 1]]

UnknownRule == [ctype |-> "x", target |-> "IND2", config |-> [plotorder |-> 1]]

\* a rule that names an object by type and index and assigns a plotid
IndexRule ==
    [ctype |-> "#", target |-> [type |-> "IND", idx |-> 4],
     config |-> [plotid |-> "DATA1"]]

\* the regular expressions of the 'r:' rules
Patterns ==
    UNION {[1 .. n -> {"a", "b", "."}] : n \in 0 .. MaxPatLen}

RegexRule(pattern) ==
    [ctype |-> "r", target |-> pattern, config |-> [plottab |-> "R"]]

Schemes ==
    [volume : BOOLEAN, voloverlay : BOOLEAN, multiple_tabs : BOOLEAN,
     xaxis_pos : {"all", "bottom"}]

\* a scheme with the volume in figures of its own and a single tab
SessionScheme ==
    [volume |-> TRUE, voloverlay |-> FALSE, multiple_tabs |-> FALSE,
     xaxis_pos |-> "bottom"]

\* the params and the scheme an app is constructed with
Params(plotconfigs, filters, schemes) ==
    [plotconfig : plotconfigs, filter : filters, scheme : schemes,
     tabs : {<<"AnalyzerTab", "MetadataTab">>}, output_mode : {"memory"}]

\* no object declares plotid, plotorder or plottab
NoPlotinfo == [o \in Objects |-> <<>>]

\* the state after __init__
Constructed ==
    /\ figurepages = <<>>
    /\ plotinfo = declared
    /\ arg = [op |-> "__init__"]
    /\ ret = [raised |-> FALSE, error |-> "", value |-> None]
    /\ calls = 0

Init ==
    /\ declared = NoPlotinfo
    /\ p \in Params({<<>>, <<OrderRule, UnknownRule>>},
                    {NoFilter, {"d0"}}, {SessionScheme})
    /\ Constructed

\* the call a made, with the result r
Call(a, r) ==
    /\ calls < MaxCalls
    /\ calls' = calls + 1
    /\ figurepages' = r.figurepages
    /\ plotinfo' = r.plotinfo
    /\ arg' = a
    /\ ret' = [raised |-> r.raised, error |-> r.error, value |-> r.value]
    /\ UNCHANGED <<p, declared>>

CreateFigurepageOf(objs) ==
    \E obj \in objs, figid \in FigIds, filter \in Filters,
       filldata \in BOOLEAN :
        Call([op |-> "create_figurepage", figid |-> figid],
             create_figurepage(figurepages, plotinfo, obj, figid, filter,
                               filldata, p))

CreateFigurepage == CreateFigurepageOf(Sources)

UpdateFigurepage ==
    \E figid \in FigIds, filter \in Filters :
        Call([op |-> "update_figurepage", figid |-> figid],
             update_figurepage(figurepages, plotinfo, figid, filter, p))

GetData ==
    \E figid \in FigIds :
        Call([op |-> "get_data", figid |-> figid],
             get_data(figurepages, plotinfo, figid))

GenerateModelPanels ==
    \E figid \in FigIds :
        Call([op |-> "generate_model_panels", figid |-> figid],
             generate_model_panels(figurepages, plotinfo, figid, p))

GenerateModel ==
    \E figid \in FigIds :
        Call([op |-> "generate_model", figid |-> figid],
             generate_model(figurepages, plotinfo, figid, p))

Show == Call([op |-> "show"], show(figurepages, plotinfo, p))

Plot ==
    \E obj \in Sources, figid \in FigIds, numfigs \in {1, 2},
       filter \in Filters :
        Call([op |-> "plot", figid |-> figid],
             plot(figurepages, plotinfo, obj, figid, numfigs, None, filter, p))

PlotOptmodel ==
    \E obj \in Sources :
        Call([op |-> "plot_optmodel"],
             plot_optmodel(figurepages, plotinfo, obj, p))

Next ==
    \/ CreateFigurepage
    \/ UpdateFigurepage
    \/ GetData
    \/ GenerateModelPanels
    \/ GenerateModel
    \/ Show
    \/ Plot
    \/ PlotOptmodel

Spec == Init /\ [][Next]_vars

----------------------------------------------------------------------------
(* The configuration of plot objects: apps constructed with a plotconfig  *)
(* over objects that declare plotids of their own, creating pages.        *)

ConfigDeclared ==
    { NoPlotinfo,
      [NoPlotinfo EXCEPT !["i0"] = [plotid |-> "IND4"]],
      [NoPlotinfo EXCEPT !["d0"] = [plotid |-> ""]],
      [NoPlotinfo EXCEPT !["o0"] = [plotid |-> "mine"],
                         !["d1"] = [plotid |-> "mine"]] }

ConfigPlotconfigs ==
    {<<RegexRule(pattern)>> : pattern \in Patterns}
    \cup {<<>>, <<OrderRule, IndexRule>>, <<IndexRule, RegexRule(<<"b">>)>>}

InitConfig ==
    /\ declared \in ConfigDeclared
    /\ p \in Params(ConfigPlotconfigs, {NoFilter}, {SessionScheme})
    /\ Constructed

CreateStrategyPage == CreateFigurepageOf(Strategies)

NextConfig == CreateStrategyPage

SpecConfig == InitConfig /\ [][NextConfig]_vars

----------------------------------------------------------------------------
(* The layout of figures: apps over objects that declare plotorder and    *)
(* plottab, under every scheme, creating, rebuilding and laying out pages. *)

PanelDeclared ==
    { NoPlotinfo,
      [NoPlotinfo EXCEPT !["d0"] = [plotorder |-> 1]],
      [NoPlotinfo EXCEPT !["i1"] = [plottab |-> "T"]],
      [NoPlotinfo EXCEPT !["d0"] = [plottab |-> "T"],
                         !["i2"] = [plotorder |-> -1]],
      [NoPlotinfo EXCEPT !["d1"] = [plotorder |-> 1],
                         !["o0"] = [plotorder |-> 1]] }

InitPanels ==
    /\ declared \in PanelDeclared
    /\ p \in Params({<<>>}, {NoFilter}, Schemes)
    /\ Constructed

NextPanels ==
    \/ CreateStrategyPage
    \/ UpdateFigurepage
    \/ GenerateModelPanels

SpecPanels == InitPanels /\ [][NextPanels]_vars

----------------------------------------------------------------------------
(* The visibility filter on the maps a collector may return: every object *)
(* is in the map once, as a master or as a child of one master.           *)

FilterPool == {"d0", "d1", "i0", "i1", "o0"}

\* the sequences without repetition over a set
InjectiveSeqs(S) ==
    {s \in UNION {[1 .. n -> S] : n \in 0 .. Cardinality(S)} :
        \A i, j \in 1 .. Len(s) : i /= j => s[i] /= s[j]}

\* the map whose masters are the objects at the positions cuts of flat,
\* each followed by its children
map_of(flat, cuts) ==
    LET pos(k) == CHOOSE c \in cuts : Cardinality({d \in cuts : d < c}) = k - 1
        last(k) == IF k = Cardinality(cuts) THEN Len(flat) ELSE pos(k + 1) - 1
    IN  [k \in 1 .. Cardinality(cuts) |->
            [master |-> flat[pos(k)],
             childs |-> SubSeq(flat, pos(k) + 1, last(k))]]

CollectorMaps ==
    {map_of(flat, cuts) :
        <<flat, cuts>> \in
            {fc \in InjectiveSeqs(FilterPool) \X SUBSET (1 .. Cardinality(FilterPool)) :
                /\ fc[2] \subseteq 1 .. Len(fc[1])
                /\ (fc[1] /= <<>>) = (1 \in fc[2])
                /\ Cardinality(fc[2]) <= MaxMasters}}

InitFilter ==
    /\ declared = NoPlotinfo
    /\ p \in Params({<<>>}, {NoFilter}, {SessionScheme})
    /\ figurepages = <<>>
    /\ plotinfo = declared
    /\ arg \in [op : {"_get_plotobjects"}, objs : CollectorMaps,
                filter : {NoFilter} \cup SUBSET FilterPool]
    /\ ret = [raised |-> FALSE, error |-> "", value |-> None]
    /\ calls = 0

GetPlotobjects ==
    /\ calls = 0
    /\ calls' = 1
    /\ ret' = [raised |-> FALSE, error |-> "",
               value |-> filter_plotobjs(arg.objs, arg.filter)]
    /\ UNCHANGED <<figurepages, plotinfo, p, arg, declared>>

NextFilter == GetPlotobjects

SpecFilter == InitFilter /\ [][NextFilter]_vars

----------------------------------------------------------------------------
(* Properties of the session registry, checked under Spec. *)

\* the figid of the call made last is bound to a page
Bound(figid) == figid \in figids_of(figurepages)

\* C1: create_figurepage, and plot, called with a figid that is already
\* bound raises, and the registry after the call is the registry before it:
\* the figid is bound to the same page, with the same figures, analyzers and
\* data clock.
C1_BoundFigidRaisesAndKeepsPage ==
    [][(/\ arg'.op \in {"create_figurepage", "plot"}
        /\ arg'.figid \in figids_of(figurepages))
       => (ret'.raised /\ figurepages' = figurepages)]_vars

\* a call with a bound figid has failed on a page that has figures,
\* analyzers and a data clock
C1_Witness ==
    /\ arg.op \in {"create_figurepage", "plot"}
    /\ ret.error = "FigurePage exists"
    /\ page_of(figurepages, arg.figid).figures /= <<>>
    /\ page_of(figurepages, arg.figid).analyzers /= <<>>
    /\ page_of(figurepages, arg.figid).data_clock /= None

\* C2: a call that raises leaves the session as it was: create_figurepage
\* that raises for an unsupported source object or an unknown rule kind
\* leaves the set of bound figids unchanged, and update_figurepage that
\* raises leaves the figures and analyzers of the page unchanged.
C2_RaiseLeavesSessionUnchanged ==
    [][/\ (/\ arg'.op = "create_figurepage"
           /\ ret'.error \in {"Unsupported plot source object",
                              "Unknown config type"})
          => figids_of(figurepages') = figids_of(figurepages)
       /\ (/\ arg'.op = "update_figurepage"
           /\ ret'.raised
           /\ arg'.figid \in figids_of(figurepages))
          => /\ page_of(figurepages', arg'.figid).figures
                = page_of(figurepages, arg'.figid).figures
             /\ page_of(figurepages', arg'.figid).analyzers
                = page_of(figurepages, arg'.figid).analyzers]_vars

\* C8: the model generate_model stored on the page of a figid holds, in its
\* panels, only figures of that page.
C8_ModelHoldsOwnFigures ==
    \A i \in 1 .. Len(figurepages) :
        figurepages[i].fp.model /= <<>> =>
            \A f \in figures_in(figurepages[i].fp.model[1]) :
                f.fp = figurepages[i].figid

\* C9: every figure of a page has the time axis of the first figure built.
C9_AllFiguresShareFirstAxis ==
    \A i \in 1 .. Len(figurepages) :
        \A k \in 1 .. Len(figurepages[i].fp.figures) :
            figurepages[i].fp.figures[k].x_range
                = figurepages[i].fp.figures[1].x_range

\* masters and children of the figures a page has now
FigureObjects(fp) ==
    UNION {{fp.figures[k].master}
           \cup {fp.figures[k].childs[j] :
                    j \in 1 .. Len(fp.figures[k].childs)} :
              k \in 1 .. Len(fp.figures)}

\* C10: the objects get_data joins a column for on a strategy page are the
\* masters and children of the figures the page has now.
C10_ColumnsOfCurrentFigures ==
    (/\ arg.op = "get_data"
     /\ ~ret.raised
     /\ page_of(figurepages, arg.figid).strategy /= None)
    => {ret.value[i] : i \in 1 .. Len(ret.value)}
           = FigureObjects(page_of(figurepages, arg.figid))

----------------------------------------------------------------------------
(* Properties of the configuration, checked under SpecConfig. *)

\* the objects of a strategy that carry a plotinfo
ObjectsOf(strategy) ==
    CASE strategy = "S0" -> {"o0", "d0", "i0", "d1", "i1", "i2"}
      [] strategy = "S1" -> {"d2", "i3"}

\* '<TypeName><idx>' of each object, idx counting the data feeds,
\* indicators and observers of its strategy in collector order from 0
DefaultPlotid ==
    [o0 |-> "OBS0", d0 |-> "DATA1", i0 |-> "IND2", d1 |-> "DATA3",
     i1 |-> "IND4", i2 |-> "IND5", d2 |-> "DATA0", i3 |-> "IND1"]

\* the strategies that have a page: _configure_plotting has run for them
ConfiguredStrategies ==
    {figurepages[i].fp.strategy : i \in 1 .. Len(figurepages)} \ {None}

\* the objects whose plotid nothing but _configure_plotobject's patch sets
DefaultIdentified(strategy) ==
    IF \E k \in 1 .. Len(p.plotconfig) :
          "plotid" \in DOMAIN p.plotconfig[k].config
    THEN {}
    ELSE {o \in ObjectsOf(strategy) : "plotid" \notin DOMAIN declared[o]}

\* C3, as amended: after _configure_plotting every data feed, indicator and
\* observer of the page has a plotid attribute; when no rule assigns plotid,
\* each object that declared none has the plotid '<TypeName><idx>', which is
\* not empty and is the plotid of no other such object of the page.
C3_DefaultPlotidsUnique ==
    \A s \in ConfiguredStrategies :
        /\ \A o \in ObjectsOf(s) : "plotid" \in DOMAIN plotinfo[o]
        /\ \A o \in DefaultIdentified(s) :
              /\ plotinfo[o].plotid = DefaultPlotid[o]
              /\ plotinfo[o].plotid /= ""
              /\ \A o2 \in DefaultIdentified(s) \ {o} :
                    plotinfo[o2].plotid /= plotinfo[o].plotid

\* a page exists whose objects got default plotids next to a declared one
C3_Witness ==
    /\ "S0" \in ConfiguredStrategies
    /\ "plotid" \in DOMAIN declared["i0"]
    /\ DefaultIdentified("S0") = ObjectsOf("S0") \ {"i0"}
    /\ plotinfo["i1"].plotid = "IND4"

\* C3, as claimed: after _configure_plotting every object of the page has a
\* plotid that is not empty, and no two objects of the page share a plotid.
C3_AllPlotidsUnique ==
    \A s \in ConfiguredStrategies :
        \A o \in ObjectsOf(s) :
            /\ "plotid" \in DOMAIN plotinfo[o]
            /\ plotinfo[o].plotid /= ""
            /\ \A o2 \in ObjectsOf(s) \ {o} :
                  plotinfo[o2].plotid /= plotinfo[o].plotid

\* the text starts with a match of the pattern
MatchAtStart(pattern, text) ==
    /\ Len(pattern) <= Len(text)
    /\ \A i \in 1 .. Len(pattern) : pattern[i] \in {".", text[i]}

\* the text holds a match of the pattern
MatchSomewhere(pattern, text) ==
    \E k \in 0 .. Len(text) - Len(pattern) :
        MatchAtStart(pattern, SubSeq(text, k + 1, Len(text)))

\* the 'r:' rules of the plotconfig
RegexTargets ==
    {p.plotconfig[k].target :
        k \in {j \in 1 .. Len(p.plotconfig) : p.plotconfig[j].ctype = "r"}}

\* the overrides of the 'r:' rules were applied to the object
RegexApplied(o) ==
    "plottab" \in DOMAIN plotinfo[o] /\ plotinfo[o].plottab = "R"

\* C4, as amended: an 'r:' rule applies its overrides to an object when its
\* pattern matches at the start of the object's label (re.match), and does
\* not apply them when it matches only further on or nowhere.
C4_RegexAppliesAtStart ==
    \A s \in ConfiguredStrategies :
        \A o \in ObjectsOf(s) :
            RegexApplied(o)
                <=> \E t \in RegexTargets : MatchAtStart(t, obj2label(o))

\* a rule was applied to one object and, matching only further on in the
\* label of another, not applied to that one
C4_Witness ==
    /\ "S0" \in ConfiguredStrategies
    /\ RegexTargets = {<<"b">>}
    /\ RegexApplied("d1")
    /\ ~RegexApplied("d0")
    /\ MatchSomewhere(<<"b">>, obj2label("d0"))

\* C4, as claimed: an 'r:' rule applies its overrides to an object when
\* its pattern matches anywhere in the label, and only then.
C4_RegexAppliesAnywhere ==
    \A s \in ConfiguredStrategies :
        \A o \in ObjectsOf(s) :
            RegexApplied(o)
                <=> \E t \in RegexTargets : MatchSomewhere(t, obj2label(o))

----------------------------------------------------------------------------
(* Properties of the visibility filter, checked under SpecFilter. *)

Elements(seq) == {seq[i] : i \in 1 .. Len(seq)}

\* sub holds the elements of full that are in keep, once each and in the
\* order they have in full (full has no element twice)
OrderedSelection(sub, full, keep) ==
    /\ Elements(sub) = Elements(full) \cap keep
    /\ Len(sub) = Cardinality(Elements(sub))
    /\ \A a, b \in 1 .. Len(sub) :
          a < b =>
            \E i, j \in 1 .. Len(full) :
                i < j /\ full[i] = sub[a] /\ full[j] = sub[b]

\* the objects for which the predicate is false
Passing == {o \in FilterPool : ~filter_obj(o, arg.filter)}

\* C5: a master for which the predicate is true is absent from the output of
\* _get_plotobjects with all its children; a master for which it is false is
\* present with exactly its children for which the predicate is false;
\* masters and children keep their input order.
C5_FilterCascadesFromMaster ==
    calls = 1 =>
        LET in == arg.objs
            out == ret.value
            masters(m) == [i \in 1 .. Len(m) |-> m[i].master]
        IN  /\ OrderedSelection(masters(out), masters(in), Passing)
            /\ \A i \in 1 .. Len(in) :
                  in[i].master \notin Passing =>
                    \A j \in 1 .. Len(out) :
                        Elements(in[i].childs) \cap Elements(out[j].childs) = {}
            /\ \A i \in 1 .. Len(in), j \in 1 .. Len(out) :
                  out[j].master = in[i].master =>
                    OrderedSelection(out[j].childs, in[i].childs, Passing)

\* a dropped master with a passing child, and a kept master with a dropped
\* child before a passing one
C5_Witness ==
    /\ calls = 1
    /\ arg.objs = << [master |-> "d0", childs |-> <<"i0">>],
                     [master |-> "d1", childs |-> <<"i1", "o0">>] >>
    /\ arg.filter = {"d0", "i1"}
    /\ ret.value = << [master |-> "d1", childs |-> <<"o0">>] >>

----------------------------------------------------------------------------
(* Properties of the layout, checked under SpecPanels. *)

\* generate_model_panels was called last, on a page of a strategy
PanelsCalled ==
    /\ arg.op = "generate_model_panels"
    /\ Bound(arg.figid)
    /\ page_of(figurepages, arg.figid).strategy /= None

CalledPage == page_of(figurepages, arg.figid)

\* the position of a figure in the figure list of the page
PageIndex(f) ==
    CHOOSE k \in 1 .. Len(CalledPage.figures) :
        same_figure(CalledPage.figures[k], f)

\* 0 for a figure tied to no feed, else the 1-based position of its feed
FeedKey(f) ==
    LET feeds == get_datanames(CalledPage.strategy)
    IN  IF get_dataname(f.master) \notin Elements(feeds) THEN 0
        ELSE CHOOSE i \in 1 .. Len(feeds) : feeds[i] = get_dataname(f.master)

\* f is before g in the order (plotorder, feed key, kind), ascending
Before(f, g) ==
    LET po(x) == plotinfo[x.master].plotorder
        kind(x) == FigureTypeValue[x.type]
    IN  \/ po(f) < po(g)
        \/ po(f) = po(g) /\ FeedKey(f) < FeedKey(g)
        \/ po(f) = po(g) /\ FeedKey(f) = FeedKey(g) /\ kind(f) < kind(g)

\* f is before g in that order, or as good as g and before it in the page
BeforeStable(f, g) ==
    Before(f, g) \/ (~Before(g, f) /\ PageIndex(f) < PageIndex(g))

\* C6: generate_model_panels lays the figures out by (plotorder, feed key,
\* kind), ascending, figures with equal keys in the order of the page: so
\* are the figures of every panel, and so are the panels by their first
\* figures.
C6_FiguresSortedStable ==
    (PanelsCalled /\ ~ret.raised) =>
        /\ \A i \in 1 .. Len(ret.value) :
              \A a, b \in 1 .. Len(ret.value[i].figs) :
                  a < b =>
                    BeforeStable(ret.value[i].figs[a], ret.value[i].figs[b])
        /\ \A i, j \in 1 .. Len(ret.value) :
              i < j =>
                BeforeStable(ret.value[i].figs[1], ret.value[j].figs[1])

\* a panel holds two figures with equal keys, and a figure that the sort
\* moved in front of one that the page lists earlier
C6_Witness ==
    /\ PanelsCalled /\ ~ret.raised
    /\ \E i \in 1 .. Len(ret.value) :
          \E a, b \in 1 .. Len(ret.value[i].figs) :
              /\ a < b
              /\ ~Before(ret.value[i].figs[a], ret.value[i].figs[b])
    /\ \E i \in 1 .. Len(ret.value) :
          \E a, b \in 1 .. Len(ret.value[i].figs) :
              /\ a < b
              /\ PageIndex(ret.value[i].figs[b])
                    < PageIndex(ret.value[i].figs[a])

\* the plottab of a figure, "" for none
Tag(f) ==
    IF "plottab" \in DOMAIN plotinfo[f.master]
    THEN plotinfo[f.master].plottab ELSE ""

\* the panel an untagged or tagged figure belongs to
PanelOf(f) ==
    IF Tag(f) /= "" THEN Tag(f)
    ELSE IF ~p.scheme.multiple_tabs THEN "Plots"
    ELSE CASE f.type = "DATA" -> "Datas"
           [] f.type = "OBS" -> "Observers"
           [] f.type = "IND" -> "Indicators"

\* an untagged figure of a kind without a tab meets the tabs by kind
UnknownKindMet ==
    /\ p.scheme.multiple_tabs
    /\ \E k \in 1 .. Len(CalledPage.figures) :
          /\ Tag(CalledPage.figures[k]) = ""
          /\ CalledPage.figures[k].type \notin {"DATA", "OBS", "IND"}

\* C7: generate_model_panels puts every figure of the page in exactly one
\* panel, the one of its plottab, else 'Plots' without multiple_tabs, else
\* 'Datas', 'Observers' or 'Indicators' by its kind, and returns no empty
\* panel; an untagged figure of another kind (a volume figure) meeting the
\* tabs by kind makes it raise.
C7_FiguresPartitionedIntoPanels ==
    PanelsCalled =>
        IF UnknownKindMet THEN ret.error = "Unknown FigureType"
        ELSE /\ ~ret.raised
             /\ \A i \in 1 .. Len(ret.value) :
                   /\ ret.value[i].figs /= <<>>
                   /\ \A a \in 1 .. Len(ret.value[i].figs) :
                         \E k \in 1 .. Len(CalledPage.figures) :
                             same_figure(CalledPage.figures[k],
                                         ret.value[i].figs[a])
             /\ \A k \in 1 .. Len(CalledPage.figures) :
                   LET places ==
                           {q \in {<<i, a>> :
                                      i \in 1 .. Len(ret.value),
                                      a \in 1 .. Len(CalledPage.figures)} :
                               /\ q[2] <= Len(ret.value[q[1]].figs)
                               /\ same_figure(CalledPage.figures[k],
                                              ret.value[q[1]].figs[q[2]])}
                   IN  /\ Cardinality(places) = 1
                       /\ \A q \in places :
                             ret.value[q[1]].title
                                 = PanelOf(CalledPage.figures[k])

\* with multiple_tabs, a page with a tagged data figure, its tagged volume
\* figure and untagged indicator and observer figures was laid out
C7_Witness ==
    /\ PanelsCalled /\ ~ret.raised
    /\ p.scheme.multiple_tabs
    /\ {ret.value[i].title : i \in 1 .. Len(ret.value)}
           = {"T", "Observers", "Indicators"}
    /\ \E k \in 1 .. Len(CalledPage.figures) :
          CalledPage.figures[k].type = "VOL"

====
